---- MODULE Spec2Model ----
(***************************************************************************)
(* github-stats: the paginated fetch (api.rs), the language filter and     *)
(* exit paths of main (main.rs) and the filter / sort / truncate /         *)
(* summary pipeline (display.rs).                                          *)
(* todo-app: the commands of main.rs over the task file of storage.rs      *)
(* (specification TodoSpec; the two programs share no state).              *)
(*                                                                         *)
(* Strings whose content the program transforms or orders (repository      *)
(* names, languages) are sequences of ASCII codes, so that to_lowercase    *)
(* and String::cmp are computed, not assumed.  Strings the program only    *)
(* passes through (username, the sort key, message texts) are TLA+ strings.*)
(* Option<T> is a sequence of length 0 (None) or 1 (Some).                 *)
(***************************************************************************)
EXTENDS Integers, Sequences, FiniteSets, TLC

(* ---------------------------- bounds ---------------------------------- *)

\* most records the API hands to the free account over all its pages
MaxRepos == 3
\* the --limit values tried are 0..MaxLimit
MaxLimit == 2
\* page size with which the API serves the fixed catalogues
PageSize == 3
\* the page counter of the liveness specification saturates here
MaxPage == 3
\* todo-app: `add` is tried while fewer than MaxTasks tasks are stored
MaxTasks == 3
\* todo-app: `add` is tried while the id it assigns is at most MaxId
MaxId == 4

(* --------------------------- strings ---------------------------------- *)

Min(a, b) == IF a <= b THEN a ELSE b

\* str::to_lowercase on ASCII text: 'A'..'Z' (65..90) map to 'a'..'z'
to_lowercase(s) ==
  [i \in 1..Len(s) |-> IF s[i] \in 65..90 THEN s[i] + 32 ELSE s[i]]

\* String::cmp is Less: bytewise lexicographic order, a proper prefix first
RECURSIVE StrLess(_, _)
StrLess(a, b) ==
  IF b = <<>> THEN FALSE
  ELSE IF a = <<>> THEN TRUE
  ELSE IF a[1] # b[1] THEN a[1] < b[1]
  ELSE StrLess(Tail(a), Tail(b))

None == <<>>
Some(x) == <<x>>

(* ------------------------- the Repo records --------------------------- *)

\* struct Repo: description and html_url are never read by the pipeline
Repo(n, s, l, f) ==
  [name |-> n, stargazers_count |-> s, language |-> l, fork |-> f]

s_Rust == <<82, 117, 115, 116>>
s_rust == <<114, 117, 115, 116>>
s_RUST == <<82, 85, 83, 84>>
s_Go == <<71, 111>>
s_Zig == <<90, 105, 103>>
s_C == <<67>>
s_Java == <<74, 97, 118, 97>>
s_Perl == <<80, 101, 114, 108>>
s_Ruby == <<82, 117, 98, 121>>
s_a == <<97>>
s_A == <<65>>
s_b == <<98>>
s_B == <<66>>
s_c == <<99>>
s_d == <<100>>
s_e == <<101>>
s_f == <<102>>
s_g == <<103>>
s_h == <<104>>

\* records the API may hand out, in any number and order, for "octocat"
Pool ==
  { Repo(s_b, 10, Some(s_Rust), FALSE),
    Repo(s_A, 50, Some(s_rust), FALSE),
    Repo(s_a, 5, None, FALSE),
    Repo(s_c, 50, Some(s_RUST), TRUE) }

\* u32 values near the top of the range (2^31 - 1 each)
BigStars == 2147483647

\* the fixed repository lists of the two other accounts
Catalogue(user) ==
  IF user = "polyglot" THEN
    << Repo(s_B, 7, Some(s_Rust), FALSE),
       Repo(s_a, 6, Some(s_Go), FALSE),
       Repo(s_b, 7, Some(s_Rust), FALSE),
       Repo(s_d, 4, Some(s_C), FALSE),
       Repo(s_e, 6, Some(s_Java), FALSE),
       Repo(s_f, 2, Some(s_Go), FALSE),
       Repo(s_g, 1, Some(s_Perl), FALSE),
       Repo(s_h, 0, Some(s_Ruby), FALSE) >>
  ELSE IF user = "bigstars" THEN
    << Repo(s_a, BigStars, Some(s_C), FALSE),
       Repo(s_b, BigStars, None, FALSE),
       Repo(s_c, BigStars, Some(s_C), TRUE),
       Repo(s_d, 10, Some(s_Go), FALSE) >>
  ELSE <<>>

Usernames == {"octocat", "polyglot", "bigstars"}
SortKeys == {"stars", "name", "size"}
LanguageArgs == {None, Some(s_RUST), Some(s_Zig)}
Statuses == {200, 403, 404}

\* StatusCode::is_success: 200..=299
is_success(st) == st \in 200..299

RECURSIVE SeqsUpTo(_, _)
\* all sequences over S of length 0..n
SeqsUpTo(S, n) ==
  IF n = 0 THEN {<<>>}
  ELSE LET shorter == SeqsUpTo(S, n - 1)
       IN shorter \cup {Append(s, x) : s \in {t \in shorter : Len(t) = n - 1}, x \in S}

(* ---------------------------- state ----------------------------------- *)

VARIABLES
  username, limit, sort, language,   \* Args
  pc,          \* "send", "await": in fetch_repos' loop; "ok", "err": it returned; "exit"
  page,        \* fetch_repos: page
  all_repos,   \* fetch_repos: all_repos
  requests,    \* page numbers of the GET requests issued so far, in order
  pages,       \* the bodies deserialized so far, in order
  status,      \* response.status() of the latest response; 0 when none arrived
  result,      \* what fetch_repos returned
  repos,       \* main: repos after the language retain
  filtered,    \* display_repos: filtered, after the sort
  header,      \* the "Public repos: .. (showing top ..)" line, when printed
  rows,        \* the table rows printed
  summary,     \* the Summary block, when printed
  notes,       \* the other stdout lines
  stderr,
  exit_code,   \* -1 while the process runs
  store,       \* todo-app: the file todos.json
  todo_last    \* todo-app: the latest command, its argument and how it ended

vars == << username, limit, sort, language, pc, page, all_repos, requests, pages,
           status, result, repos, filtered, header, rows, summary, notes, stderr, exit_code,
           store, todo_last >>

args == << username, limit, sort, language >>
out == << repos, filtered, header, rows, summary, notes, stderr, exit_code >>
todo == << store, todo_last >>

\* todos.json: absent, present without content, or the JSON save_tasks wrote
FileMissing == [state |-> "missing", json |-> <<>>]
FileBlank == [state |-> "blank", json |-> <<>>]
FileJson(j) == [state |-> "json", json |-> j]

\* no todo command was run yet
NoCommand == [cmd |-> "none", ok |-> TRUE, id |-> 0, msg |-> ""]

\* Result<Vec<Repo>, String>; code is the status code the error text carries (0: none)
Ok(v) == [kind |-> "Ok", repos |-> v, msg |-> "", code |-> 0]
Err(m, st) == [kind |-> "Err", repos |-> <<>>, msg |-> m, code |-> st]
Pending == [kind |-> "Pending", repos |-> <<>>, msg |-> "", code |-> 0]

Init ==
  /\ username \in Usernames
  /\ limit \in 0..MaxLimit
  /\ sort \in SortKeys
  /\ language \in LanguageArgs
  /\ pc = "send"
  /\ page = 1
  /\ all_repos = <<>>
  /\ requests = <<>>
  /\ pages = <<>>
  /\ status = 0
  /\ result = Pending
  /\ repos = <<>>
  /\ filtered = <<>>
  /\ header = None
  /\ rows = <<>>
  /\ summary = None
  /\ notes = {"Fetching repos for"}
  /\ stderr = <<>>
  /\ exit_code = -1
  /\ store = FileMissing
  /\ todo_last = NoCommand

(* ------------------------- fetch_repos -------------------------------- *)

\* client.get(url).send(): the request for the current page goes out
SendRequest ==
  /\ pc = "send"
  /\ requests' = Append(requests, page)
  /\ pc' = "await"
  /\ UNCHANGED << todo, args, page, all_repos, pages, status, result, out >>

\* fetch_repos returns r: the loop is left
Return(r) ==
  /\ result' = r
  /\ pc' = IF r.kind = "Ok" THEN "ok" ELSE "err"

\* .send().await fails: map_err(..)? returns the error
SendFails ==
  /\ pc = "await"
  /\ status' = 0
  /\ Return(Err("Request failed", 0))
  /\ UNCHANGED << todo, args, page, all_repos, requests, pages, out >>

\* (mutant) a 404 is answered by asking for the same page again
RespNotFound_Retry ==
  /\ pc = "await"
  /\ status' = 404
  /\ pc' = "send"
  /\ UNCHANGED << todo, args, page, all_repos, requests, pages, result, out >>

\* status 404
RespNotFound ==
  /\ pc = "await"
  /\ status' = 404
  /\ Return(Err("User not found", 0))
  /\ UNCHANGED << todo, args, page, all_repos, requests, pages, out >>

\* any other status that is not a success
RespApiError ==
  /\ pc = "await"
  /\ \E st \in Statuses :
       /\ st # 404
       /\ ~is_success(st)
       /\ status' = st
       /\ Return(Err("GitHub API error", st))
  /\ UNCHANGED << todo, args, page, all_repos, requests, pages, out >>

\* a success status whose body does not deserialize into Vec<Repo>
RespParseFails ==
  /\ pc = "await"
  /\ \E st \in Statuses :
       /\ st # 404
       /\ is_success(st)
       /\ status' = st
       /\ Return(Err("Failed to parse response", 0))
  /\ UNCHANGED << todo, args, page, all_repos, requests, pages, out >>

\* the non-empty bodies the API may answer the outstanding request with
ApiBodies ==
  IF username = "octocat"
  THEN SeqsUpTo(Pool, MaxRepos - Len(all_repos)) \ {<<>>}
  ELSE LET cat == Catalogue(username)
           from == Len(all_repos) + 1
           to == Min(Len(all_repos) + PageSize, Len(cat))
       IN IF from <= to THEN {SubSeq(cat, from, to)} ELSE {}

\* a success status and an empty array: break, then Ok(all_repos)
RespEmpty ==
  /\ pc = "await"
  /\ \E st \in Statuses :
       /\ st # 404
       /\ is_success(st)
       /\ status' = st
       /\ pages' = Append(pages, <<>>)
       /\ Return(Ok(all_repos))
  /\ UNCHANGED << todo, args, page, all_repos, requests, out >>

\* (mutant) the page is put in front of the accumulator
RespPage_Prepend ==
  /\ pc = "await"
  /\ \E st \in Statuses, body \in ApiBodies :
       /\ st # 404
       /\ is_success(st)
       /\ status' = st
       /\ pages' = Append(pages, body)
       /\ all_repos' = body \o all_repos
       /\ page' = page + 1
       /\ pc' = "send"
  /\ UNCHANGED << todo, args, requests, result, out >>

\* a success status and a non-empty array: extend, page += 1, loop
RespPage ==
  /\ pc = "await"
  /\ \E st \in Statuses, body \in ApiBodies :
       /\ st # 404
       /\ is_success(st)
       /\ status' = st
       /\ pages' = Append(pages, body)
       /\ all_repos' = all_repos \o body
       /\ page' = page + 1
       /\ pc' = "send"
  /\ UNCHANGED << todo, args, requests, result, out >>

(* ------------------------------ sorting ------------------------------- *)

\* the comparators handed to sort_by: TRUE when a orders strictly before b
Less(by, a, b) ==
  IF by = "name" THEN StrLess(to_lowercase(a.name), to_lowercase(b.name))
  ELSE IF by = "count" THEN b.count < a.count
  ELSE b.stargazers_count < a.stargazers_count

\* (mutant) x goes in front of the first element that does not order before it
Insert_BeforeEquals(sorted, x, by) ==
  LET before == {i \in 1..Len(sorted) : ~Less(by, sorted[i], x)}
      pos == IF before = {} THEN Len(sorted) + 1
             ELSE CHOOSE i \in before : \A j \in before : i <= j
  IN SubSeq(sorted, 1, pos - 1) \o <<x>> \o SubSeq(sorted, pos, Len(sorted))

\* x goes in front of the first element it orders strictly before
Insert(sorted, x, by) ==
  LET before == {i \in 1..Len(sorted) : Less(by, x, sorted[i])}
      pos == IF before = {} THEN Len(sorted) + 1
             ELSE CHOOSE i \in before : \A j \in before : i <= j
  IN SubSeq(sorted, 1, pos - 1) \o <<x>> \o SubSeq(sorted, pos, Len(sorted))

RECURSIVE sort_by(_, _)
\* slice::sort_by is a stable sort; its result is that of a stable insertion sort
sort_by(s, by) ==
  IF s = <<>> THEN <<>>
  ELSE Insert(sort_by(SubSeq(s, 1, Len(s) - 1), by), s[Len(s)], by)

\* iter().take(n)
take(s, n) == SubSeq(s, 1, Min(n, Len(s)))

(* --------------------------- u32 arithmetic --------------------------- *)

\* a u32 is kept as two 16-bit limbs; hi may pass Limb - 1 before it is wrapped
Limb == 65536
Wide(n) == [hi |-> n \div Limb, lo |-> n % Limb]
WideAdd(a, b) ==
  [hi |-> a.hi + b.hi + ((a.lo + b.lo) \div Limb), lo |-> (a.lo + b.lo) % Limb]
Overflows(w) == w.hi >= Limb
Wrap(w) == [hi |-> w.hi % Limb, lo |-> w.lo]

RECURSIVE u32_sum(_, _)
\* Iterator::sum::<u32>: a left fold with +.  With overflow checks (debug
\* profile) the first overflowing + panics; without (release) each + wraps.
u32_sum(xs, checks) ==
  IF xs = <<>> THEN [panicked |-> FALSE, val |-> Wide(0)]
  ELSE LET acc == u32_sum(SubSeq(xs, 1, Len(xs) - 1), checks)
           raw == WideAdd(acc.val, Wide(xs[Len(xs)]))
       IN IF acc.panicked THEN acc
          ELSE IF Overflows(raw) /\ checks THEN [panicked |-> TRUE, val |-> acc.val]
          ELSE [panicked |-> FALSE, val |-> Wrap(raw)]

(* -------------------------- main, Ok branch --------------------------- *)

\* (mutant) the languages are compared as written
language_matches_exact(r, lang) ==
  IF r.language = None THEN FALSE
  ELSE r.language[1] = lang

\* the closure of repos.retain in main
language_matches(r, lang) ==
  IF r.language = None THEN FALSE
  ELSE to_lowercase(r.language[1]) = to_lowercase(lang)

\* repos after `if let Some(ref lang) = args.language { repos.retain(..) }`
retain_language(rs, lang_arg) ==
  IF lang_arg = None THEN rs
  ELSE SelectSeq(rs, LAMBDA r : language_matches(r, lang_arg[1]))

\* display_repos: repos.iter().filter(|r| !r.fork)
not_fork(r) == ~r.fork
filter_forks(rs) == SelectSeq(rs, not_fork)

\* display_repos: the match on sort_by
sort_key(sort_arg) == IF sort_arg = "name" THEN "name" ELSE "stars"
sorted_filtered(rs, sort_arg) == sort_by(filter_forks(rs), sort_key(sort_arg))

\* display_repos: display_count
display_count(n, f) == Min(n, Len(f))

\* (mutant) the loop runs over all of filtered
table_rows_all(f, n) == f

\* display_repos: the rows of `for repo in filtered.iter().take(limit)`
table_rows(f, n) == take(f, n)

\* display_summary: the keys of lang_counts
lang_keys(f) == {f[i].language[1] : i \in {j \in 1..Len(f) : f[j].language # None}}

\* display_summary: lang_counts[k]
lang_count(f, k) == Cardinality({i \in 1..Len(f) : f[i].language = Some(k)})

RECURSIVE Orders(_)
\* the orders in which a HashMap with these keys may iterate
Orders(S) ==
  IF S = {} THEN {<<>>}
  ELSE UNION {{<<x>> \o o : o \in Orders(S \ {x})} : x \in S}

\* the `.take(5)` of lang_summary
TopLanguages == 5

\* (mutant) the tally is listed in the map's iteration order
lang_summary_unsorted(f, order) ==
  take([i \in 1..Len(order) |->
          [lang |-> order[i], count |-> lang_count(f, order[i])]], TopLanguages)

\* display_summary: lang_sorted after sort_by and take, for one iteration order
lang_summary(f, order) ==
  take(sort_by([i \in 1..Len(order) |->
                  [lang |-> order[i], count |-> lang_count(f, order[i])]], "count"),
       TopLanguages)

\* display_summary: `if let Some(top) = repos.first()`
most_starred(f) == IF f = <<>> THEN None ELSE Some(f[1])

\* the header line of display_repos
Header(f) ==
  [username |-> username, total |-> Len(f),
   display_count |-> display_count(limit, f), sort_by |-> sort]

\* the language filter leaves nothing: "No {lang} repositories found", return
MainNoLanguageMatch ==
  /\ pc = "ok"
  /\ language # None
  /\ retain_language(result.repos, language) = <<>>
  /\ repos' = <<>>
  /\ notes' = notes \cup {"No <lang> repositories found for"}
  /\ exit_code' = 0
  /\ pc' = "exit"
  /\ UNCHANGED << todo, args, page, all_repos, requests, pages, status, result,
                  filtered, header, rows, summary, stderr >>

\* display_repos up to and including the table
DisplayTable(rs, f) ==
  /\ pc = "ok"
  /\ ~(language # None /\ rs = <<>>)
  /\ repos' = rs
  /\ filtered' = f
  /\ header' = Some(Header(f))
  /\ rows' = table_rows(f, limit)
  /\ pc' = "exit"
  /\ UNCHANGED << todo, args, page, all_repos, requests, pages, status, result >>

\* (mutant) display_summary has no early return for an empty slice
MainDisplayEmpty_NoReturn ==
  LET rs == retain_language(result.repos, language)
      f == sorted_filtered(rs, sort)
  IN /\ DisplayTable(rs, f)
     /\ f = <<>>
     /\ summary' = Some([total_stars |-> Wide(0), languages |-> <<>>,
                         most_starred |-> None])
     /\ exit_code' = 0
     /\ UNCHANGED << notes, stderr >>

\* display_repos, display_summary with nothing left: "No repositories found."
MainDisplayEmpty ==
  LET rs == retain_language(result.repos, language)
      f == sorted_filtered(rs, sort)
  IN /\ DisplayTable(rs, f)
     /\ f = <<>>
     /\ notes' = notes \cup {"No repositories found."}
     /\ exit_code' = 0
     /\ UNCHANGED << summary, stderr >>

\* the star counts display_summary adds up
star_counts(f) == [i \in 1..Len(f) |-> f[i].stargazers_count]

\* display_repos, display_summary printing the Summary block
MainDisplaySummary ==
  LET rs == retain_language(result.repos, language)
      f == sorted_filtered(rs, sort)
  IN /\ DisplayTable(rs, f)
     /\ f # <<>>
     /\ \E checks \in BOOLEAN, order \in Orders(lang_keys(f)) :
          LET total == u32_sum(star_counts(f), checks)
          IN /\ ~total.panicked
             /\ summary' = Some([total_stars |-> total.val,
                                 languages |-> lang_summary(f, order),
                                 most_starred |-> most_starred(f)])
     /\ exit_code' = 0
     /\ UNCHANGED << notes, stderr >>

\* display_repos, display_summary panicking in the sum (overflow checks on)
MainDisplayPanic ==
  LET rs == retain_language(result.repos, language)
      f == sorted_filtered(rs, sort)
  IN /\ DisplayTable(rs, f)
     /\ f # <<>>
     /\ u32_sum(star_counts(f), TRUE).panicked
     /\ stderr' = Append(stderr, "attempt to add with overflow")
     /\ exit_code' = 101
     /\ UNCHANGED << notes, summary >>

(* -------------------------- main, Err branch -------------------------- *)

\* eprintln!("Error: {e}"); std::process::exit(1)
MainErr ==
  /\ pc = "err"
  /\ stderr' = Append(stderr, result.msg)
  /\ exit_code' = 1
  /\ pc' = "exit"
  /\ UNCHANGED << todo, args, page, all_repos, requests, pages, status, result,
                  repos, filtered, header, rows, summary, notes >>

Next ==
  \/ SendRequest
  \/ SendFails
  \/ RespNotFound
  \/ RespApiError
  \/ RespParseFails
  \/ RespEmpty
  \/ RespPage
  \/ MainNoLanguageMatch
  \/ MainDisplayEmpty
  \/ MainDisplaySummary
  \/ MainDisplayPanic
  \/ MainErr

Spec == Init /\ [][Next]_vars

(* ------------------- the fetch loop without an end -------------------- *)

\* The loop of fetch_repos has no bound of its own: page, all_repos and the
\* histories grow for as long as the pages are non-empty.  LiveSpec follows
\* the loop through a finite window: once MaxPage pages were received the
\* counter, the histories and the accumulator stand
\* still while the loop goes on, so that a run of the program that never leaves
\* the loop is a run of LiveSpec that cycles.  Here the API answers "octocat"
\* with one record a page, for as long as it likes.

SendRequestLive ==
  /\ pc = "send"
  /\ requests' = IF Len(requests) < MaxPage THEN Append(requests, page) ELSE requests
  /\ pc' = "await"
  /\ UNCHANGED << todo, args, page, all_repos, pages, status, result, out >>

ApiBodiesLive ==
  IF username = "octocat" THEN {<<r>> : r \in Pool} ELSE ApiBodies

RespPageLive ==
  /\ pc = "await"
  /\ \E st \in Statuses, body \in ApiBodiesLive :
       /\ st # 404
       /\ is_success(st)
       /\ status' = st
       /\ pages' = IF Len(pages) < MaxPage THEN Append(pages, body) ELSE pages
       /\ all_repos' = IF Len(pages) < MaxPage THEN all_repos \o body ELSE all_repos
       /\ page' = IF page < MaxPage THEN page + 1 ELSE page
       /\ pc' = "send"
  /\ UNCHANGED << todo, args, requests, result, out >>

NextLive ==
  \/ SendRequestLive
  \/ SendFails
  \/ RespNotFound
  \/ RespApiError
  \/ RespParseFails
  \/ RespEmpty
  \/ RespPageLive
  \/ MainNoLanguageMatch
  \/ MainDisplayEmpty
  \/ MainDisplaySummary
  \/ MainDisplayPanic
  \/ MainErr

\* what `.send().await` and the handling of the response can come to
Response ==
  \/ SendFails
  \/ RespNotFound
  \/ RespApiError
  \/ RespParseFails
  \/ RespEmpty
  \/ RespPageLive

\* the loop runs on while it can: the request of the current iteration is
\* sent, and every awaited request is answered (or fails)
LiveSpec ==
  Init /\ [][NextLive]_vars /\ WF_vars(SendRequestLive) /\ WF_vars(Response)

(* ============================ todo-app ================================ *)

\* The file system is taken to work: reading and writing todos.json succeed.

s_low == <<108, 111, 119>>
s_medium == <<109, 101, 100, 105, 117, 109>>
s_med == <<109, 101, 100>>
s_high == <<104, 105, 103, 104>>
s_HIGH == <<72, 73, 71, 72>>
s_invalid == <<105, 110, 118, 97, 108, 105, 100>>

\* Priority::from_str: Some(priority), or None for the Err
priority_from_str(a) ==
  LET l == to_lowercase(a)
  IN IF l = s_low THEN Some("Low")
     ELSE IF l = s_medium \/ l = s_med THEN Some("Medium")
     ELSE IF l = s_high THEN Some("High")
     ELSE None

\* Task::new
NewTask(i, d, p) == [id |-> i, description |-> d, completed |-> FALSE, priority |-> p]

\* serde of Priority with rename_all = "lowercase"
priority_to_json(p) ==
  IF p = "Low" THEN "low" ELSE IF p = "Medium" THEN "medium" ELSE "high"
priority_from_json(j) ==
  IF j = "low" THEN "Low" ELSE IF j = "medium" THEN "Medium" ELSE "High"

\* serde of Task
task_to_json(t) ==
  [id |-> t.id, description |-> t.description, completed |-> t.completed,
   priority |-> priority_to_json(t.priority)]
task_from_json(j) ==
  [id |-> j.id, description |-> j.description, completed |-> j.completed,
   priority |-> priority_from_json(j.priority)]

\* serde of Vec<Task>: a JSON array, element by element
tasks_to_json(ts) ==
  IF ts = <<>> THEN <<>> ELSE [i \in 1..Len(ts) |-> task_to_json(ts[i])]
tasks_from_json(js) ==
  IF js = <<>> THEN <<>> ELSE [i \in 1..Len(js) |-> task_from_json(js[i])]

\* storage::load_tasks: no file or no content gives the empty list
load_tasks(file) ==
  IF file.state = "missing" THEN <<>>
  ELSE IF file.state = "blank" THEN <<>>
  ELSE tasks_from_json(file.json)

\* storage::save_tasks: the file after the write
save_tasks(tasks) == FileJson(tasks_to_json(tasks))

\* the largest of a non-empty set of numbers
MaxOf(S) == CHOOSE m \in S : \A x \in S : x <= m

\* (mutant) the next id is taken from the number of tasks
next_id_len(tasks) == Len(tasks) + 1

\* storage::next_id; the ids the model reaches stay far below u32::MAX, where
\* the + 1 would overflow
next_id(tasks) ==
  (IF tasks = <<>> THEN 0 ELSE MaxOf({tasks[i].id : i \in 1..Len(tasks)})) + 1

\* iter().position(|t| t.id == id): 0 when there is none
position(tasks, id) ==
  LET hits == {i \in 1..Len(tasks) : tasks[i].id = id}
  IN IF hits = {} THEN 0 ELSE CHOOSE i \in hits : \A j \in hits : i <= j

\* Vec::remove(pos)
remove_at(tasks, pos) == SubSeq(tasks, 1, pos - 1) \o SubSeq(tasks, pos + 1, Len(tasks))

Descriptions == {"Learn Rust ownership"}
\* what follows the description: nothing, or --priority and a word
PriorityArgs == {None, Some(s_HIGH), Some(s_med), Some(s_invalid)}
\* the <id> argument: a word that parses as u32, or one that does not
IdArgs == {[parses |-> FALSE, n |-> 0]} \cup {[parses |-> TRUE, n |-> i] : i \in 0..(MaxId + 1)}

\* how a command ended: Ok or Err, the id it named or assigned, what it printed
Ended(c, good, i, m) ==
  todo_last' = [cmd |-> c, ok |-> good, id |-> i, msg |-> m]

github == << args, pc, page, all_repos, requests, pages, status, result, out >>

\* cmd_add without a description, or with a --priority that from_str rejects
CmdAddRejected ==
  /\ \/ Ended("add", FALSE, 0, "Usage: todo add")
     \/ /\ \E a \in PriorityArgs : a # None /\ priority_from_str(a[1]) = None
        /\ Ended("add", FALSE, 0, "Invalid priority")
  /\ UNCHANGED << github, store >>

\* cmd_add: load, next_id, push, save
CmdAdd ==
  /\ \E d \in Descriptions, a \in PriorityArgs :
       LET priority == IF a = None THEN Some("Medium") ELSE priority_from_str(a[1])
           tasks == load_tasks(store)
           id == next_id(tasks)
       IN /\ priority # None
          /\ Len(tasks) < MaxTasks
          /\ id <= MaxId
          /\ store' = save_tasks(Append(tasks, NewTask(id, d, priority[1])))
          /\ Ended("add", TRUE, id, "Added")
  /\ UNCHANGED github

\* cmd_list: prints, changes nothing
CmdList ==
  /\ Ended("list", TRUE, 0, "listed")
  /\ UNCHANGED << github, store >>

\* cmd_done without an id, or with one that does not parse
CmdDoneRejected ==
  /\ \/ Ended("done", FALSE, 0, "Usage: todo done")
     \/ /\ \E a \in IdArgs : ~a.parses
        /\ Ended("done", FALSE, 0, "Invalid ID")
  /\ UNCHANGED << github, store >>

\* cmd_done: no task has the id
CmdDoneNotFound ==
  /\ \E a \in IdArgs :
       /\ a.parses
       /\ position(load_tasks(store), a.n) = 0
       /\ Ended("done", FALSE, a.n, "Task not found")
  /\ UNCHANGED << github, store >>

\* cmd_done: the task is completed already; nothing is saved
CmdDoneAlready ==
  /\ \E a \in IdArgs :
       LET tasks == load_tasks(store)
           pos == position(tasks, a.n)
       IN /\ a.parses
          /\ pos # 0
          /\ tasks[pos].completed
          /\ Ended("done", TRUE, a.n, "Task is already completed")
  /\ UNCHANGED << github, store >>

\* cmd_done: the first task with the id is completed and the list saved
CmdDone ==
  /\ \E a \in IdArgs :
       LET tasks == load_tasks(store)
           pos == position(tasks, a.n)
       IN /\ a.parses
          /\ pos # 0
          /\ ~tasks[pos].completed
          /\ store' = save_tasks([tasks EXCEPT ![pos].completed = TRUE])
          /\ Ended("done", TRUE, a.n, "Completed")
  /\ UNCHANGED github

\* cmd_remove without an id, or with one that does not parse
CmdRemoveRejected ==
  /\ \/ Ended("remove", FALSE, 0, "Usage: todo remove")
     \/ /\ \E a \in IdArgs : ~a.parses
        /\ Ended("remove", FALSE, 0, "Invalid ID")
  /\ UNCHANGED << github, store >>

\* cmd_remove: no task has the id
CmdRemoveNotFound ==
  /\ \E a \in IdArgs :
       /\ a.parses
       /\ position(load_tasks(store), a.n) = 0
       /\ Ended("remove", FALSE, a.n, "Task not found")
  /\ UNCHANGED << github, store >>

\* cmd_remove: the first task with the id is removed and the list saved
CmdRemove ==
  /\ \E a \in IdArgs :
       LET tasks == load_tasks(store)
           pos == position(tasks, a.n)
       IN /\ a.parses
          /\ pos # 0
          /\ store' = save_tasks(remove_at(tasks, pos))
          /\ Ended("remove", TRUE, a.n, "Removed")
  /\ UNCHANGED github

\* the todo-app starts with todos.json absent or without content
TodoInit ==
  /\ username = "octocat"
  /\ limit = 0
  /\ sort = "stars"
  /\ language = None
  /\ pc = "send"
  /\ page = 1
  /\ all_repos = <<>>
  /\ requests = <<>>
  /\ pages = <<>>
  /\ status = 0
  /\ result = Pending
  /\ repos = <<>>
  /\ filtered = <<>>
  /\ header = None
  /\ rows = <<>>
  /\ summary = None
  /\ notes = {}
  /\ stderr = <<>>
  /\ exit_code = -1
  /\ store \in {FileMissing, FileBlank}
  /\ todo_last = NoCommand

TodoNext ==
  \/ CmdAddRejected
  \/ CmdAdd
  \/ CmdList
  \/ CmdDoneRejected
  \/ CmdDoneNotFound
  \/ CmdDoneAlready
  \/ CmdDone
  \/ CmdRemoveRejected
  \/ CmdRemoveNotFound
  \/ CmdRemove

TodoSpec == TodoInit /\ [][TodoNext]_vars

(* ======================= the claims, C1 .. ============================ *)

RECURSIVE Concat(_)
\* the concatenation of a sequence of pages
Concat(ps) == IF ps = <<>> THEN <<>> ELSE ps[1] \o Concat(Tail(ps))

InLoop == pc \in {"send", "await"}

\* C1: fetch_repos requests pages 1, 2, 3, ... one at a time (a request goes
\* out only when every earlier one was answered), goes on while the pages are
\* non-empty, stops at the first empty page without requesting another, and
\* returns Ok with the concatenation, in page and within-page order, of the
\* pages before the empty one.
C1_Pagination ==
  /\ \A i \in 1..Len(requests) : requests[i] = i
  /\ Len(pages) <= Len(requests)
  /\ Len(requests) <= Len(pages) + 1
  /\ pc = "send" => Len(requests) = Len(pages)
  /\ pc = "await" => Len(requests) = Len(pages) + 1
  /\ InLoop => /\ result.kind = "Pending"
               /\ \A i \in 1..Len(pages) : pages[i] # <<>>
               /\ all_repos = Concat(pages)
  /\ result.kind = "Ok" =>
       /\ pages # <<>>
       /\ pages[Len(pages)] = <<>>
       /\ \A i \in 1..(Len(pages) - 1) : pages[i] # <<>>
       /\ Len(requests) = Len(pages)
       /\ result.repos = Concat(SubSeq(pages, 1, Len(pages) - 1))
  /\ (result.kind = "Pending" /\ \A i \in 1..Len(pages) : pages[i] # <<>>) => InLoop

\* C1's case: two non-empty pages, the first with two different records, then
\* the empty page
C1_Witness ==
  /\ result.kind = "Ok"
  /\ Len(pages) = 3
  /\ Len(pages[1]) = 2
  /\ pages[1][1] # pages[1][2]
  /\ pages[1][2] # pages[2][1]

\* C2: a transport failure, a 404, another non-success status or a body that
\* does not deserialize, on the first or a later page, ends the fetch with an
\* error: the failed request is the last one and no page was requested twice,
\* none of the accumulated records is returned or printed, the only step left
\* prints the error and exits with code 1, a 404 gives the "not found" error and
\* any other non-success status the error that carries the status code.
C2_FetchErrorAborts ==
  /\ (status # 0 /\ ~is_success(status)) => result.kind = "Err"
  /\ result.kind = "Err" =>
       /\ pc \in {"err", "exit"}
       /\ \A i \in 1..Len(requests) : requests[i] = i
       /\ Len(requests) = Len(pages) + 1
       /\ result.repos = <<>>
       /\ repos = <<>> /\ filtered = <<>>
       /\ header = None /\ rows = <<>> /\ summary = None
       /\ notes = {"Fetching repos for"}
       /\ status = 404 <=> result.msg = "User not found"
       /\ (status # 0 /\ status # 404 /\ ~is_success(status)) <=>
            (result.msg = "GitHub API error" /\ result.code = status)
       /\ status = 0 <=> result.msg = "Request failed"
       /\ is_success(status) <=> result.msg = "Failed to parse response"
       /\ pc = "err" => exit_code = -1 /\ stderr = <<>> /\ ENABLED MainErr
       /\ pc = "exit" => exit_code = 1 /\ stderr = <<result.msg>>
  /\ exit_code = 1 => result.kind = "Err"

\* C2's case: a 404 on the second page, after records were accumulated, and
\* the process has exited
C2_Witness ==
  /\ pc = "exit"
  /\ result.kind = "Err"
  /\ status = 404
  /\ Len(requests) = 2
  /\ all_repos # <<>>

\* the records the run is to show: not a fork and, when a language filter is
\* given, with a language that equals it once both are lowercased
IsKept(r) ==
  /\ r.fork = FALSE
  /\ \/ language = None
     \/ /\ r.language # None
        /\ to_lowercase(r.language[1]) = to_lowercase(language[1])

CountOf(s, x) == Cardinality({i \in 1..Len(s) : s[i] = x})
Range(s) == {s[i] : i \in 1..Len(s)}
SameRecords(s, t) == \A x \in Range(s) \cup Range(t) : CountOf(s, x) = CountOf(t, x)

FetchedAndDone == pc = "exit" /\ result.kind = "Ok"

\* C3: after a successful fetch the set that is displayed and summarised holds
\* exactly the fetched records that are no fork and whose language, lowercased,
\* equals the lowercased filter (every non-fork when there is no filter; no
\* record without a language when there is one), each as often as it was
\* fetched; and filtering forks first or languages first gives the same.
C3_FilteredSet ==
  FetchedAndDone =>
    LET kept == SelectSeq(result.repos, IsKept)
    IN /\ SameRecords(filtered, kept)
       /\ header # None => header[1].total = Len(kept)
       /\ header = None => kept = <<>>
       /\ filter_forks(retain_language(result.repos, language))
            = retain_language(filter_forks(result.repos), language)

\* C3's case: a filter that differs in case from the language it keeps, with a
\* fork of a matching language and a record without language among the fetched
C3_Witness ==
  /\ FetchedAndDone
  /\ language # None
  /\ Len(filtered) = 1
  /\ filtered[1].language # language
  /\ \E i \in 1..Len(result.repos) :
       result.repos[i].fork /\ result.repos[i].language = language
  /\ \E i \in 1..Len(result.repos) : result.repos[i].language = None

\* C4: the most-starred entry of the summary is a record of maximum star count
\* of the filtered set, for every sort key.
C4_MostStarredIsMax ==
  summary # None =>
    /\ summary[1].most_starred # None
    /\ \A i \in 1..Len(filtered) :
         filtered[i].stargazers_count <= summary[1].most_starred[1].stargazers_count

\* the sort key of a record under the --sort value given
KeyOf(r) == IF sort = "name" THEN to_lowercase(r.name) ELSE <<r.stargazers_count>>
HasKey(r, k) == KeyOf(r) = k
WithKey(s, k) == SelectSeq(s, LAMBDA r : HasKey(r, k))

\* C5: the sorted filtered set is a permutation of the filtered set; under
\* "name" the lowercased names never decrease, under "stars" and under any
\* other key the star counts never increase; records of equal key keep the
\* order in which they were fetched.
C5_Sorted ==
  header # None =>
    LET input == SelectSeq(repos, LAMBDA r : r.fork = FALSE)
    IN /\ SameRecords(filtered, input)
       /\ sort = "name" =>
            \A i, j \in 1..Len(filtered) :
              i < j => ~StrLess(to_lowercase(filtered[j].name),
                                to_lowercase(filtered[i].name))
       /\ sort # "name" =>
            \A i, j \in 1..Len(filtered) :
              i < j => filtered[i].stargazers_count >= filtered[j].stargazers_count
       /\ \A k \in {KeyOf(r) : r \in Range(input)} :
            WithKey(filtered, k) = WithKey(input, k)

\* C5's case: a sort by name that moves records and meets two different names
\* that are equal once lowercased
C5_Witness ==
  /\ header # None
  /\ sort = "name"
  /\ Len(filtered) = 3
  /\ filtered # SelectSeq(repos, LAMBDA r : r.fork = FALSE)
  /\ \E i \in 1..2 :
       /\ filtered[i].name # filtered[i + 1].name
       /\ to_lowercase(filtered[i].name) = to_lowercase(filtered[i + 1].name)

\* the scenario of three non-fork records with 10, 50 and 5 stars
Scenario ==
  /\ FetchedAndDone
  /\ [i \in 1..Len(result.repos) |-> result.repos[i].stargazers_count] = <<10, 50, 5>>
  /\ \A i \in 1..Len(result.repos) : result.repos[i].fork = FALSE
  /\ language = None
  /\ sort = "stars"
  /\ limit = 2

\* C6: the table holds min(limit, filtered count) rows, they are the first
\* records of the sorted filtered set, in its order, and the header announces
\* that number; stars [10, 50, 5] by "stars" with limit 2 shows 50 then 10.
C6_Truncation ==
  /\ header = None => rows = <<>>
  /\ header # None =>
       /\ Len(rows) = (IF limit <= Len(filtered) THEN limit ELSE Len(filtered))
       /\ \A i \in 1..Len(rows) : rows[i] = filtered[i]
       /\ header[1].display_count = Len(rows)
  /\ Scenario => [i \in 1..Len(rows) |-> rows[i].stargazers_count] = <<50, 10>>

C6_Witness == Scenario /\ Len(rows) = 2 /\ Len(filtered) = 3

RECURSIVE TrueSum(_)
\* the sum of the star counts of s, not reduced modulo 2^32
TrueSum(s) ==
  IF s = <<>> THEN Wide(0)
  ELSE WideAdd(TrueSum(Tail(s)), Wide(s[1].stargazers_count))

\* C7: whenever a non-empty filtered set was displayed, the summary reports as
\* total the sum of the star counts of the whole filtered set, whatever the
\* limit and the sort key, also when that sum passes 2^32 - 1.
C7_TotalIsTrueSum ==
  (pc = "exit" /\ header # None /\ filtered # <<>>) =>
    /\ summary # None
    /\ summary[1].total_stars = TrueSum(filtered)

KnownLanguages == {filtered[i].language[1] : i \in {j \in 1..Len(filtered) : filtered[j].language # None}}
Occurrences(l) == Cardinality({i \in 1..Len(filtered) : filtered[i].language = <<l>>})

\* C8: the tally lists at most 5 languages (5 when more are known), each once,
\* each with the number of records of the whole filtered set that have that
\* language, in non-increasing order of that number, and no language left out
\* occurs more often than a listed one; records without language count nowhere.
C8_LanguageTally ==
  summary # None =>
    LET ls == summary[1].languages
        listed == {ls[i].lang : i \in 1..Len(ls)}
    IN /\ Len(ls) <= 5
       /\ Len(ls) = (IF Cardinality(KnownLanguages) <= 5
                     THEN Cardinality(KnownLanguages) ELSE 5)
       /\ listed \subseteq KnownLanguages
       /\ \A i \in 1..Len(ls) : ls[i].count = Occurrences(ls[i].lang)
       /\ \A i, j \in 1..Len(ls) :
            i < j => ls[i].lang # ls[j].lang /\ ls[i].count >= ls[j].count
       /\ \A l \in KnownLanguages \ listed :
            \A i \in 1..Len(ls) : ls[i].count >= Occurrences(l)

\* C8's case: six languages known, five listed, fewer rows shown than records
\* tallied, a language of two records listed first
C8_Witness ==
  /\ summary # None
  /\ Cardinality(KnownLanguages) = 6
  /\ Len(summary[1].languages) = 5
  /\ summary[1].languages[1].count = 2
  /\ Len(rows) < Len(filtered)

\* C9: a successful fetch that leaves nothing to show (no repositories, only
\* forks, or no match for the language filter) prints a "no repositories
\* found" message, no table row and no summary, nothing on stderr, and exits 0.
C9_EmptyIsNotAnError ==
  (FetchedAndDone /\ SelectSeq(result.repos, IsKept) = <<>>) =>
    /\ exit_code = 0
    /\ stderr = <<>>
    /\ rows = <<>>
    /\ summary = None
    /\ \/ "No repositories found." \in notes
       \/ "No <lang> repositories found for" \in notes

\* C9's case: every fetched repository is a fork, no language filter
C9_Witness ==
  /\ FetchedAndDone
  /\ language = None
  /\ result.repos # <<>>
  /\ header # None
  /\ header[1].total = 0
  /\ "No repositories found." \in notes

\* C10: whatever the API answers, also when every page it hands out is a
\* non-empty successful one, fetch_repos eventually leaves its loop with a
\* result or an error.
C10_FetchTerminates == <>(pc \notin {"send", "await"})

StoredTasks == load_tasks(store)
IdsOf(ts) == IF ts = <<>> THEN <<>> ELSE [i \in 1..Len(ts) |-> ts[i].id]
IdSet(ts) == {ts[i].id : i \in 1..Len(ts)}

\* what C11 says of one command: before and after are the stored tasks around it
C11_Step ==
  LET before == load_tasks(store)
      after == load_tasks(store')
      c == todo_last'
  IN /\ (c.cmd = "add" /\ c.ok) =>
          /\ Len(after) = Len(before) + 1
          /\ SubSeq(after, 1, Len(before)) = before
          /\ after[Len(after)].id = c.id
          /\ c.id = (IF before = <<>> THEN 1
                     ELSE 1 + (CHOOSE m \in IdSet(before) : \A x \in IdSet(before) : x <= m))
     /\ c.cmd = "done" => IdsOf(after) = IdsOf(before)
     /\ c.cmd = "remove" =>
          /\ IdSet(after) \subseteq IdSet(before)
          /\ \A i \in 1..Len(after) : \E j \in 1..Len(before) : after[i] = before[j]
          /\ c.ok => IdSet(after) = IdSet(before) \ {c.id}
     /\ (c.cmd \in {"done", "remove"} /\ c.msg \notin {"Usage: todo done", "Usage: todo remove", "Invalid ID"}
           /\ c.id \notin IdSet(before)) =>
          /\ c.ok = FALSE
          /\ store' = store

\* C11: from an absent or blank todos.json, after any add, done and remove
\* commands, the stored tasks have pairwise distinct ids; an add gives the new
\* task the id 1 + the largest stored id (1 when none is stored); done and
\* remove change no task's id; a done or remove that names an id not stored
\* ends in an error and leaves the file as it was.
C11_DistinctIds ==
  /\ [](\A i, j \in 1..Len(StoredTasks) :
          i # j => StoredTasks[i].id # StoredTasks[j].id)
  /\ [][C11_Step]_vars

\* C11's case: tasks 1 and 3 are stored (2 was removed) and a remove that
\* names the id 2 has just ended in an error
C11_Witness ==
  /\ IdsOf(StoredTasks) = <<1, 3>>
  /\ todo_last = [cmd |-> "remove", ok |-> FALSE, id |-> 2, msg |-> "Task not found"]

====
